---- MODULE Spec2Model ----
(***************************************************************************)
(* Model of the OCR Background Replacer backend (src/main.py): the themed  *)
(* background builder build_background and the /process handler            *)
(* process_image (decode, threshold mask, composite, faint watermark,      *)
(* PNG response, and the two-clause exception handler).                    *)
(*                                                                         *)
(* Strings whose characters matter (theme names) are sequences of          *)
(* one-character strings; images are records [mode, size, px] where px     *)
(* maps <<x, y>> (0-based, x the column, y the row) to a pixel: a natural  *)
(* for mode "L", <<r,g,b>> for "RGB", <<r,g,b,a>> for "RGBA".              *)
(***************************************************************************)
EXTENDS Integers, Sequences, FiniteSets, TLC

VARIABLES pc, file, theme, contents, original, w, h, color1, color2, text_color,
          bg_img, gray, hist, thresh, mask, composed, exc, outcome

vars == <<pc, file, theme, contents, original, w, h, color1, color2, text_color,
          bg_img, gray, hist, thresh, mask, composed, exc, outcome>>

----------------------------------------------------------------------------
(* Bounds of the model *)

\* /process: the uploaded image has at most MaxPixels pixels (w * h)
MaxPixels == 4
\* build_background on its own: sizes 1..MaxBgW x 1..MaxBgH
MaxBgW == 2
MaxBgH == 4
\* the threshold scan on its own: each populated bin holds 0..MaxCount pixels
MaxCount == 3

----------------------------------------------------------------------------
(* Program constants *)

NumBins == 256
DefaultThresh == 200
FloorThresh == 120
WatermarkAlpha == 25
Opaque == 255

Max(a, b) == IF a >= b THEN a ELSE b
Min(a, b) == IF a <= b THEN a ELSE b

----------------------------------------------------------------------------
(* Strings: str.lower() and the falsy test of `theme or "light"` *)

LowerChars == <<"a","b","c","d","e","f","g","h","i","j","k","l","m",
                "n","o","p","q","r","s","t","u","v","w","x","y","z">>
UpperChars == <<"A","B","C","D","E","F","G","H","I","J","K","L","M",
                "N","O","P","Q","R","S","T","U","V","W","X","Y","Z">>

LowerChar(c) ==
    IF \E i \in 1..Len(UpperChars) : UpperChars[i] = c
    THEN LowerChars[CHOOSE i \in 1..Len(UpperChars) : UpperChars[i] = c]
    ELSE c

UpperChar(c) ==
    IF \E i \in 1..Len(LowerChars) : LowerChars[i] = c
    THEN UpperChars[CHOOSE i \in 1..Len(LowerChars) : LowerChars[i] = c]
    ELSE c

Lower(s) == [i \in 1..Len(s) |-> LowerChar(s[i])]

\* A theme argument: Python None, or a str given by its characters.
NoneTheme == [none |-> TRUE, s |-> <<>>]
Str(s) == [none |-> FALSE, s |-> s]

s_light   == <<"l","i","g","h","t">>
s_dark    == <<"d","a","r","k">>
s_blue    == <<"b","l","u","e">>
s_brand   == <<"b","r","a","n","d">>
s_purple  == <<"p","u","r","p","l","e">>
s_emerald == <<"e","m","e","r","a","l","d">>
s_rose    == <<"r","o","s","e">>
s_slate   == <<"s","l","a","t","e">>
s_cyber   == <<"c","y","b","e","r">>

\* theme = (theme or "light").lower()
NormalizeTheme_NoLower(th) == IF th.none \/ th.s = <<>> THEN s_light ELSE th.s

NormalizeTheme(th) == Lower(IF th.none \/ th.s = <<>> THEN s_light ELSE th.s)

\* The defaults and the if/elif chain of build_background.
ThemeColors(th) ==
    LET t == NormalizeTheme(th) IN
    IF t = s_dark THEN
        [color1 |-> <<11, 12, 16>>, color2 |-> <<18, 19, 24>>,
         text_color |-> <<245, 245, 245>>]
    ELSE IF t = s_blue THEN
        [color1 |-> <<219, 234, 254>>, color2 |-> <<191, 219, 254>>,
         text_color |-> <<17, 24, 39>>]
    ELSE IF t = s_brand THEN
        [color1 |-> <<250, 245, 255>>, color2 |-> <<236, 233, 255>>,
         text_color |-> <<24, 24, 27>>]
    ELSE IF t = s_purple THEN
        [color1 |-> <<238, 233, 255>>, color2 |-> <<221, 214, 254>>,
         text_color |-> <<30, 27, 75>>]
    ELSE IF t = s_emerald THEN
        [color1 |-> <<209, 250, 229>>, color2 |-> <<167, 243, 208>>,
         text_color |-> <<6, 78, 59>>]
    ELSE IF t = s_rose THEN
        [color1 |-> <<255, 228, 230>>, color2 |-> <<254, 205, 211>>,
         text_color |-> <<76, 5, 25>>]
    ELSE IF t = s_slate THEN
        [color1 |-> <<248, 250, 252>>, color2 |-> <<226, 232, 240>>,
         text_color |-> <<15, 23, 42>>]
    ELSE IF t = s_cyber THEN
        [color1 |-> <<10, 10, 16>>, color2 |-> <<20, 14, 40>>,
         text_color |-> <<218, 70, 239>>]
    ELSE
        [color1 |-> <<250, 250, 250>>, color2 |-> <<240, 240, 245>>,
         text_color |-> <<17, 24, 39>>]

----------------------------------------------------------------------------
(* Images (the PIL operations the program calls) *)

Pixels(width, height) == (0..(width - 1)) \X (0..(height - 1))

NoImage == [mode |-> "none", size |-> <<0, 0>>, px |-> <<>>]

\* Image.new(mode, size, color)
ImageNew(mode, size, color) ==
    [mode |-> mode, size |-> size,
     px |-> [p \in Pixels(size[1], size[2]) |-> color]]

\* dst.paste(im, box): im's pixels replace dst's from the corner box on
Paste(dst, im, box) ==
    [dst EXCEPT !.px =
        [p \in DOMAIN dst.px |->
            IF /\ p[1] - box[1] \in 0..(im.size[1] - 1)
               /\ p[2] - box[2] \in 0..(im.size[2] - 1)
            THEN im.px[<<p[1] - box[1], p[2] - box[2]>>]
            ELSE dst.px[p]]]

\* the drawing part of build_background (lines 76-81)
TwoTone_CeilSplit(width, height, c1, c2) ==
    LET bg     == ImageNew("RGB", <<width, height>>, c1)
        top    == ImageNew("RGB", <<width, (height + 1) \div 2>>, c1)
        bottom == ImageNew("RGB", <<width, height - (height + 1) \div 2>>, c2)
    IN Paste(Paste(bg, top, <<0, 0>>), bottom, <<0, (height + 1) \div 2>>)

TwoTone_SwappedBands(width, height, c1, c2) ==
    LET bg     == ImageNew("RGB", <<width, height>>, c1)
        top    == ImageNew("RGB", <<width, height \div 2>>, c2)
        bottom == ImageNew("RGB", <<width, height - height \div 2>>, c1)
    IN Paste(Paste(bg, top, <<0, 0>>), bottom, <<0, height \div 2>>)

TwoTone(width, height, c1, c2) ==
    LET bg     == ImageNew("RGB", <<width, height>>, c1)
        top    == ImageNew("RGB", <<width, height \div 2>>, c1)
        bottom == ImageNew("RGB", <<width, height - height \div 2>>, c2)
    IN Paste(Paste(bg, top, <<0, 0>>), bottom, <<0, height \div 2>>)

\* build_background(size, theme): assigns its locals and returns bg, text_color
build_background(size, th) ==
    LET pal == ThemeColors(th) IN
    /\ color1' = pal.color1
    /\ color2' = pal.color2
    /\ text_color' = pal.text_color
    /\ bg_img' = TwoTone(size[1], size[2], pal.color1, pal.color2)

----------------------------------------------------------------------------
(* Decoding, grey conversion, histogram, threshold, mask *)

\* im.convert("RGB")
ConvertRGB(im) ==
    IF im.mode = "L"
    THEN [mode |-> "RGB", size |-> im.size,
          px |-> [p \in DOMAIN im.px |-> <<im.px[p], im.px[p], im.px[p]>>]]
    ELSE [mode |-> "RGB", size |-> im.size,
          px |-> [p \in DOMAIN im.px |-> <<im.px[p][1], im.px[p][2], im.px[p][3]>>]]

\* the ITU-R 601-2 luma transform of convert("L"), in 16-bit fixed point
Luma(rgb) == (rgb[1] * 19595 + rgb[2] * 38470 + rgb[3] * 7471 + 32768) \div 65536

\* original.convert("L")
ConvertL(im) ==
    [mode |-> "L", size |-> im.size,
     px |-> [p \in DOMAIN im.px |-> Luma(im.px[p])]]

\* gray.histogram(): the pixel count of each of the 256 intensities
Histogram(im) ==
    [i \in 0..(NumBins - 1) |-> Cardinality({p \in DOMAIN im.px : im.px[p] = i})]

RECURSIVE SumRange(_, _, _)
\* the sum of hs[lo..hi], by halves
SumRange(hs, lo, hi) ==
    IF lo > hi THEN 0
    ELSE IF lo = hi THEN hs[lo]
    ELSE SumRange(hs, lo, (lo + hi) \div 2) + SumRange(hs, (lo + hi) \div 2 + 1, hi)

\* total = sum(hist)
Total(hs) == SumRange(hs, 0, NumBins - 1)

\* cumsum >= total * 0.7 on a double: for integer cumsum and total below 2^52
\* the rounded product never exceeds 7*total/10 when that is an integer and
\* never crosses an integer otherwise, so the test is the exact one.
ReachesPercentile_Strict(cumsum, total) == 10 * cumsum > 7 * total

ReachesPercentile(cumsum, total) == 10 * cumsum >= 7 * total

\* one iteration of `for i, v in enumerate(hist)` on the loop's variables
LoopBody_NoFloor(st, i, v, total) ==
    IF ReachesPercentile(st.cumsum + v, total)
    THEN [cumsum |-> st.cumsum + v, thresh |-> i, broke |-> TRUE]
    ELSE [cumsum |-> st.cumsum + v, thresh |-> st.thresh, broke |-> FALSE]

LoopBody(st, i, v, total) ==
    IF ReachesPercentile(st.cumsum + v, total)
    THEN [cumsum |-> st.cumsum + v, thresh |-> Max(FloorThresh, i), broke |-> TRUE]
    ELSE [cumsum |-> st.cumsum + v, thresh |-> st.thresh, broke |-> FALSE]

RECURSIVE RunLoop(_, _, _, _, _)
\* iterations lo..hi of the loop in order, stopping at the break (the range is
\* split in halves to keep the evaluation shallow; the order is unchanged)
RunLoop(st, hs, lo, hi, total) ==
    IF st.broke \/ lo > hi THEN st
    ELSE IF lo = hi THEN LoopBody(st, lo, hs[lo], total)
    ELSE RunLoop(RunLoop(st, hs, lo, (lo + hi) \div 2, total),
                 hs, (lo + hi) \div 2 + 1, hi, total)

\* the loop without its break: the last bin always reaches the percentile
AutoThreshold_NoBreak(hs) == Max(FloorThresh, NumBins - 1)

\* lines 116-123: total, cumsum = 0, thresh = 200 and the loop
AutoThreshold(hs) ==
    RunLoop([cumsum |-> 0, thresh |-> DefaultThresh, broke |-> FALSE],
            hs, 0, NumBins - 1, Total(hs)).thresh

\* the lambda of gray.point(...)
InkValue_Inclusive(p, t) == IF p <= t THEN 255 ELSE 0

InkValue(p, t) == IF p < t THEN 255 ELSE 0

\* gray.point(lambda p: 255 if p < thresh else 0).convert("L")
ThresholdMask(g, t) ==
    [mode |-> "L", size |-> g.size,
     px |-> [p \in DOMAIN g.px |-> InkValue(g.px[p], t)]]

----------------------------------------------------------------------------
(* Compositing *)

\* PIL's MULDIV255(a, b): a*b/255, rounded
MulDiv255(a, b) ==
    LET t == a * b + 128 IN ((t \div 256) + t) \div 256

\* Image.composite(image1, image2, mask): image1 where the mask is 255,
\* image2 where it is 0, the 8-bit blend in between
Composite(image1, image2, m) ==
    [mode |-> image2.mode, size |-> image2.size,
     px |-> [p \in DOMAIN image2.px |->
        IF m.px[p] = 255 THEN image1.px[p]
        ELSE IF m.px[p] = 0 THEN image2.px[p]
        ELSE [c \in 1..3 |->
                MulDiv255(image2.px[p][c], 255 - m.px[p])
                + MulDiv255(image1.px[p][c], m.px[p])]]]

\* im.convert("RGBA") of an RGB image: alpha 255
ConvertRGBA(im) ==
    [mode |-> "RGBA", size |-> im.size,
     px |-> [p \in DOMAIN im.px |->
                <<im.px[p][1], im.px[p][2], im.px[p][3], Opaque>>]]

\* im.putalpha(alpha)
PutAlpha(im, alpha) ==
    [im EXCEPT !.px =
        [p \in DOMAIN im.px |->
            <<im.px[p][1], im.px[p][2], im.px[p][3], alpha.px[p]>>]]

\* PIL's SHIFTFORDIV255
ShiftForDiv255(a) == ((a \div 256) + a) \div 256

\* one pixel of PIL's alpha composite of src over dst (7 precision bits)
OverPixel(dst, src) ==
    IF src[4] = 0 THEN dst
    ELSE LET blend   == dst[4] * (255 - src[4])
             outa255 == src[4] * 255 + blend
             coef1   == (src[4] * 255 * 255 * 128) \div outa255
             coef2   == 255 * 128 - coef1
             Ch(c)   == ShiftForDiv255(src[c] * coef1 + dst[c] * coef2
                                       + 128 * 128) \div 128
         IN <<Ch(1), Ch(2), Ch(3), ShiftForDiv255(outa255 + 128)>>

\* dst.alpha_composite(src)
AlphaComposite(dst, src) ==
    [dst EXCEPT !.px = [p \in DOMAIN dst.px |-> OverPixel(dst.px[p], src.px[p])]]

\* an RGBA image converted to "RGB": the alpha channel is dropped
DropAlpha(im) ==
    [mode |-> "RGB", size |-> im.size,
     px |-> [p \in DOMAIN im.px |-> <<im.px[p][1], im.px[p][2], im.px[p][3]>>]]

\* lines 133-138: the faint watermark of the original over the composite
AddWatermark_Swapped(comp, orig) ==
    LET watermark == PutAlpha(ConvertRGBA(comp),
                              ImageNew("L", comp.size, WatermarkAlpha))
    IN DropAlpha(AlphaComposite(ConvertRGBA(orig), watermark))

AddWatermark(comp, orig) ==
    LET watermark == PutAlpha(ConvertRGBA(orig),
                              ImageNew("L", orig.size, WatermarkAlpha))
    IN DropAlpha(AlphaComposite(ConvertRGBA(comp), watermark))

----------------------------------------------------------------------------
(* Inputs *)

\* pixel colours of uploaded images: black, white, the greys around the
\* threshold floor, and a saturated red (luma 76)
SourceColors ==
    {<<0, 0, 0>>, <<255, 255, 255>>, <<119, 119, 119>>, <<120, 120, 120>>,
     <<255, 0, 0>>}

SourceSizes ==
    {sz \in (1..MaxPixels) \X (1..MaxPixels) : sz[1] * sz[2] <= MaxPixels}

SourceImages ==
    UNION {{[mode |-> "RGB", size |-> sz, px |-> f] :
                f \in [Pixels(sz[1], sz[2]) -> SourceColors]} : sz \in SourceSizes}

\* an upload: bytes PIL can decode to an image, or bytes it cannot
Uploads ==
    {[decodable |-> FALSE, image |-> NoImage]}
    \cup {[decodable |-> TRUE, image |-> im] : im \in SourceImages}

\* the theme form field of /process (default "light")
RequestThemes == {Str(s_light), Str(<<"D","a","r","k">>)}

\* every letter-case spelling of a name
CaseVariants(name) ==
    {[i \in 1..Len(name) |-> IF i \in U THEN UpperChar(name[i]) ELSE name[i]] :
        U \in SUBSET (1..Len(name))}

ThemeNames ==
    {s_light, s_dark, s_blue, s_brand, s_purple, s_emerald, s_rose, s_slate,
     s_cyber}

\* names no table entry matches
OtherNames ==
    {<<"d","a","r","k","e","r">>, <<"l","i","g","h">>, <<" ","d","a","r","k">>,
     <<"r","o","s","e","s">>, <<"n","e","o","n">>, <<"B","L","U","E","-","2">>,
     <<"x">>}

ThemeInputs ==
    {NoneTheme, Str(<<>>)}
    \cup {Str(s) : s \in UNION {CaseVariants(n) : n \in ThemeNames}}
    \cup {Str(s) : s \in OtherNames}

\* populated bins of the histograms the threshold scan is run on
HistBins == {0, 119, 120, 200, 255}

HistInputs ==
    {[i \in 0..(NumBins - 1) |-> IF i \in HistBins THEN f[i] ELSE 0] :
        f \in [HistBins -> 0..MaxCount]}
    \ {[i \in 0..(NumBins - 1) |-> 0]}

----------------------------------------------------------------------------
(* State machine *)

NoException == [type |-> "none", origin |-> "none"]
NoOutcome == [kind |-> "none"]
NoUpload == [decodable |-> FALSE, image |-> NoImage]

Locals ==
    /\ contents = NoUpload /\ original = NoImage
    /\ w = 0 /\ h = 0
    /\ color1 = <<>> /\ color2 = <<>> /\ text_color = <<>>
    /\ bg_img = NoImage /\ gray = NoImage /\ hist = <<>> /\ thresh = -1
    /\ mask = NoImage /\ composed = NoImage
    /\ exc = NoException /\ outcome = NoOutcome

Init ==
    /\ pc = "idle"
    /\ file = NoUpload
    /\ theme = NoneTheme
    /\ Locals

\* a POST /process arrives with its upload and theme field
Request ==
    /\ pc = "idle"
    /\ \E up \in Uploads, th \in RequestThemes :
          /\ file' = up
          /\ theme' = th
    /\ pc' = "read"
    /\ UNCHANGED <<contents, original, w, h, color1, color2, text_color, bg_img,
                   gray, hist, thresh, mask, composed, exc, outcome>>

\* a statement of the try body raises an exception that is not an HTTPException
Raises(origin) ==
    /\ exc' = [type |-> "Exception", origin |-> origin, text |-> origin]
    /\ pc' = "except"
    /\ UNCHANGED <<file, theme, contents, original, w, h, color1, color2,
                   text_color, bg_img, gray, hist, thresh, mask, composed,
                   outcome>>

\* contents = await file.read()
ReadFile ==
    /\ pc = "read"
    /\ contents' = file
    /\ pc' = "decode"
    /\ UNCHANGED <<file, theme, original, w, h, color1, color2, text_color,
                   bg_img, gray, hist, thresh, mask, composed, exc, outcome>>

ReadRaises ==
    /\ pc = "read"
    /\ Raises("read")

\* original = Image.open(io.BytesIO(contents)).convert("RGB"); w, h = original.size
Decode ==
    /\ pc = "decode"
    /\ contents.decodable
    /\ original' = ConvertRGB(contents.image)
    /\ w' = contents.image.size[1]
    /\ h' = contents.image.size[2]
    /\ pc' = "background"
    /\ UNCHANGED <<file, theme, contents, color1, color2, text_color, bg_img,
                   gray, hist, thresh, mask, composed, exc, outcome>>

\* except Exception: raise HTTPException(status_code=400, detail=...)
DecodeRaises ==
    /\ pc = "decode"
    /\ ~contents.decodable
    /\ exc' = [type |-> "HTTPException", origin |-> "decode",
               status_code |-> 400, detail |-> "Invalid image data"]
    /\ pc' = "except"
    /\ UNCHANGED <<file, theme, contents, original, w, h, color1, color2,
                   text_color, bg_img, gray, hist, thresh, mask, composed,
                   outcome>>

\* bg_img, text_color = build_background((w, h), theme)
BuildBackground ==
    /\ pc = "background"
    /\ build_background(<<w, h>>, theme)
    /\ pc' = "mask"
    /\ UNCHANGED <<file, theme, contents, original, w, h, gray, hist, thresh,
                   mask, composed, exc, outcome>>

BackgroundRaises ==
    /\ pc = "background"
    /\ Raises("background")

\* gray, hist, the threshold loop and mask
ExtractMask ==
    /\ pc = "mask"
    /\ gray' = ConvertL(original)
    /\ hist' = Histogram(gray')
    /\ thresh' = AutoThreshold(hist')
    /\ mask' = ThresholdMask(gray', thresh')
    /\ pc' = "composite"
    /\ UNCHANGED <<file, theme, contents, original, w, h, color1, color2,
                   text_color, bg_img, composed, exc, outcome>>

MaskRaises ==
    /\ pc = "mask"
    /\ Raises("mask")

\* text_layer = Image.new(...); composed = Image.composite(text_layer, bg_img, mask)
CompositeText ==
    /\ pc = "composite"
    /\ composed' = Composite(ImageNew("RGB", <<w, h>>, text_color), bg_img, mask)
    /\ pc' = "watermark"
    /\ UNCHANGED <<file, theme, contents, original, w, h, color1, color2,
                   text_color, bg_img, gray, hist, thresh, mask, exc, outcome>>

CompositeRaises ==
    /\ pc = "composite"
    /\ Raises("composite")

\* watermark, putalpha, alpha_composite, convert("RGB")
Watermark ==
    /\ pc = "watermark"
    /\ composed' = AddWatermark(composed, original)
    /\ pc' = "encode"
    /\ UNCHANGED <<file, theme, contents, original, w, h, color1, color2,
                   text_color, bg_img, gray, hist, thresh, mask, exc, outcome>>

WatermarkRaises ==
    /\ pc = "watermark"
    /\ Raises("watermark")

\* composed.save(buf, format="PNG"); return StreamingResponse(buf, "image/png")
Encode ==
    /\ pc = "encode"
    /\ outcome' = [kind |-> "return", status_code |-> 200,
                   media_type |-> "image/png",
                   body |-> [format |-> "PNG", image |-> composed]]
    /\ pc' = "done"
    /\ UNCHANGED <<file, theme, contents, original, w, h, color1, color2,
                   text_color, bg_img, gray, hist, thresh, mask, composed, exc>>

EncodeRaises ==
    /\ pc = "encode"
    /\ Raises("encode")

\* except HTTPException: raise
ReraiseHTTP_Swallowed ==
    /\ pc = "except"
    /\ exc.type = "HTTPException"
    /\ outcome' = [kind |-> "return", status_code |-> 500,
                   media_type |-> "application/json",
                   body |-> [error |-> exc.detail]]
    /\ pc' = "done"
    /\ UNCHANGED <<file, theme, contents, original, w, h, color1, color2,
                   text_color, bg_img, gray, hist, thresh, mask, composed, exc>>

ReraiseHTTP ==
    /\ pc = "except"
    /\ exc.type = "HTTPException"
    /\ outcome' = [kind |-> "raise", exception |-> exc]
    /\ pc' = "done"
    /\ UNCHANGED <<file, theme, contents, original, w, h, color1, color2,
                   text_color, bg_img, gray, hist, thresh, mask, composed, exc>>

\* except Exception as e: return JSONResponse(status_code=500, ...)
HandleException_DefaultStatus ==
    /\ pc = "except"
    /\ exc.type = "Exception"
    /\ outcome' = [kind |-> "return", status_code |-> 200,
                   media_type |-> "application/json",
                   body |-> [error |-> exc.text]]
    /\ pc' = "done"
    /\ UNCHANGED <<file, theme, contents, original, w, h, color1, color2,
                   text_color, bg_img, gray, hist, thresh, mask, composed, exc>>

HandleException ==
    /\ pc = "except"
    /\ exc.type = "Exception"
    /\ outcome' = [kind |-> "return", status_code |-> 500,
                   media_type |-> "application/json",
                   body |-> [error |-> exc.text]]
    /\ pc' = "done"
    /\ UNCHANGED <<file, theme, contents, original, w, h, color1, color2,
                   text_color, bg_img, gray, hist, thresh, mask, composed, exc>>

\* the request is over: its locals are released
Finish ==
    /\ pc = "done"
    /\ pc' = "idle"
    /\ file' = NoUpload
    /\ theme' = NoneTheme
    /\ contents' = NoUpload /\ original' = NoImage
    /\ w' = 0 /\ h' = 0
    /\ color1' = <<>> /\ color2' = <<>> /\ text_color' = <<>>
    /\ bg_img' = NoImage /\ gray' = NoImage /\ hist' = <<>> /\ thresh' = -1
    /\ mask' = NoImage /\ composed' = NoImage
    /\ exc' = NoException /\ outcome' = NoOutcome

Next ==
    \/ Request
    \/ ReadFile \/ ReadRaises
    \/ Decode \/ DecodeRaises
    \/ BuildBackground \/ BackgroundRaises
    \/ ExtractMask \/ MaskRaises
    \/ CompositeText \/ CompositeRaises
    \/ Watermark \/ WatermarkRaises
    \/ Encode \/ EncodeRaises
    \/ ReraiseHTTP \/ HandleException
    \/ Finish

Spec == Init /\ [][Next]_vars

----------------------------------------------------------------------------
(* build_background called on its own, over every theme spelling *)

InitBackground ==
    /\ pc = "build_background"
    /\ file = NoUpload
    /\ theme \in ThemeInputs
    /\ w \in 1..MaxBgW
    /\ h \in 1..MaxBgH
    /\ contents = NoUpload /\ original = NoImage
    /\ color1 = <<>> /\ color2 = <<>> /\ text_color = <<>>
    /\ bg_img = NoImage /\ gray = NoImage /\ hist = <<>> /\ thresh = -1
    /\ mask = NoImage /\ composed = NoImage
    /\ exc = NoException /\ outcome = NoOutcome

BackgroundCall ==
    /\ pc = "build_background"
    /\ build_background(<<w, h>>, theme)
    /\ pc' = "background_returned"
    /\ UNCHANGED <<file, theme, contents, original, w, h, gray, hist, thresh,
                   mask, composed, exc, outcome>>

NextBackground == BackgroundCall

SpecBackground == InitBackground /\ [][NextBackground]_vars

----------------------------------------------------------------------------
(* the threshold scan run on its own, over histograms *)

InitThreshold ==
    /\ pc = "threshold"
    /\ file = NoUpload
    /\ theme = NoneTheme
    /\ hist \in HistInputs
    /\ contents = NoUpload /\ original = NoImage
    /\ w = 0 /\ h = 0
    /\ color1 = <<>> /\ color2 = <<>> /\ text_color = <<>>
    /\ bg_img = NoImage /\ gray = NoImage /\ thresh = -1
    /\ mask = NoImage /\ composed = NoImage
    /\ exc = NoException /\ outcome = NoOutcome

ThresholdCall ==
    /\ pc = "threshold"
    /\ thresh' = AutoThreshold(hist)
    /\ pc' = "threshold_returned"
    /\ UNCHANGED <<file, theme, contents, original, w, h, color1, color2,
                   text_color, bg_img, gray, hist, mask, composed, exc, outcome>>

NextThreshold == ThresholdCall

SpecThreshold == InitThreshold /\ [][NextThreshold]_vars

----------------------------------------------------------------------------
(* Properties of the exception handler (specification Spec) *)

\* C1: a request whose upload cannot be decoded (the read succeeded, the decode
\* step raised) ends with the HTTPException 400 "Invalid image data" leaving
\* the handler unchanged: never a returned response, PNG or 500.
C1_UndecodableIs400 ==
    (pc = "done" /\ ~file.decodable /\ exc.origin # "read") =>
        /\ exc.origin = "decode"
        /\ outcome.kind = "raise"
        /\ outcome.exception = exc
        /\ outcome.exception.type = "HTTPException"
        /\ outcome.exception.status_code = 400
        /\ outcome.exception.detail = "Invalid image data"

C1_Witness == pc = "done" /\ exc.origin = "decode" /\ outcome.kind = "raise"

\* C2: when a step other than decoding raises, the handler returns the 500
\* JSON response carrying the exception's text: nothing escapes the handler
\* and no image is returned.
C2_OtherFailureIs500 ==
    (pc = "done" /\ exc.origin \in {"read", "background", "mask", "composite",
                                    "watermark", "encode"}) =>
        /\ outcome.kind = "return"
        /\ outcome.status_code = 500
        /\ outcome.media_type = "application/json"
        /\ outcome.body = [error |-> exc.text]

C2_Witness ==
    /\ pc = "done" /\ exc.origin = "encode" /\ composed.mode = "RGB"
    /\ outcome.kind = "return" /\ outcome.status_code = 500

----------------------------------------------------------------------------
(* Properties of build_background (specification SpecBackground) *)

IsRGB(c) == Len(c) = 3 /\ \A k \in 1..3 : c[k] \in 0..255

\* s spells name in some letter case
SpellsIgnoringCase(s, name) ==
    /\ Len(s) = Len(name)
    /\ \A i \in 1..Len(name) : s[i] = name[i] \/ s[i] = UpperChar(name[i])

\* the theme table: <<top colour, bottom colour, text colour>> of each name
PaletteOf(name) ==
    CASE name = s_light   -> <<<<250, 250, 250>>, <<240, 240, 245>>, <<17, 24, 39>>>>
      [] name = s_dark    -> <<<<11, 12, 16>>, <<18, 19, 24>>, <<245, 245, 245>>>>
      [] name = s_blue    -> <<<<219, 234, 254>>, <<191, 219, 254>>, <<17, 24, 39>>>>
      [] name = s_brand   -> <<<<250, 245, 255>>, <<236, 233, 255>>, <<24, 24, 27>>>>
      [] name = s_purple  -> <<<<238, 233, 255>>, <<221, 214, 254>>, <<30, 27, 75>>>>
      [] name = s_emerald -> <<<<209, 250, 229>>, <<167, 243, 208>>, <<6, 78, 59>>>>
      [] name = s_rose    -> <<<<255, 228, 230>>, <<254, 205, 211>>, <<76, 5, 25>>>>
      [] name = s_slate   -> <<<<248, 250, 252>>, <<226, 232, 240>>, <<15, 23, 42>>>>
      [] name = s_cyber   -> <<<<10, 10, 16>>, <<20, 14, 40>>, <<218, 70, 239>>>>

Recognized(th) ==
    ~th.none /\ \E n \in ThemeNames : SpellsIgnoringCase(th.s, n)

\* C3: theme resolution is total and case-insensitive: three RGB triples for
\* every theme; a recognized name in any letter case gets its own table entry;
\* None, the empty string and every other name get the palette of "light".
C3_ThemeResolution ==
    pc = "background_returned" =>
        /\ IsRGB(color1) /\ IsRGB(color2) /\ IsRGB(text_color)
        /\ \A n \in ThemeNames :
              (~theme.none /\ SpellsIgnoringCase(theme.s, n)) =>
                  <<color1, color2, text_color>> = PaletteOf(n)
        /\ ~Recognized(theme) =>
              <<color1, color2, text_color>> = PaletteOf(s_light)

C3_Witness ==
    /\ pc = "background_returned"
    /\ theme = Str(<<"C","y","B","e","R">>)
    /\ text_color = <<218, 70, 239>>

RowsOfColor(im, c) ==
    {y \in 0..(im.size[2] - 1) :
        \A x \in 0..(im.size[1] - 1) : im.px[<<x, y>>] = c}

\* C4: the background has exactly w columns and h rows; row r is the top colour
\* when r < h div 2 and the bottom colour otherwise, with no other colour; for
\* odd h the bottom band has one row more than the top band.
C4_TwoBands ==
    pc = "background_returned" =>
        /\ bg_img.size = <<w, h>>
        /\ DOMAIN bg_img.px = Pixels(w, h)
        /\ \A p \in Pixels(w, h) :
              bg_img.px[p] = IF p[2] < h \div 2 THEN color1 ELSE color2
        /\ h % 2 = 1 =>
              Cardinality(RowsOfColor(bg_img, color2))
                  = Cardinality(RowsOfColor(bg_img, color1)) + 1

C4_Witness ==
    /\ pc = "background_returned" /\ w = 2 /\ h = 3
    /\ bg_img.px[<<1, 0>>] = color1
    /\ bg_img.px[<<1, 1>>] = color2
    /\ bg_img.px[<<1, 2>>] = color2
    /\ color1 # color2

FirstBottomRow(im, c) ==
    CHOOSE y \in RowsOfColor(im, c) : \A z \in RowsOfColor(im, c) : y <= z

\* C5 as stated: size w x h, row 0 is the top colour, the last row is the
\* bottom colour and the first bottom-coloured row is floor(h/2), for h >= 1.
C5_Original ==
    pc = "background_returned" =>
        /\ bg_img.size = <<w, h>>
        /\ \A x \in 0..(w - 1) : bg_img.px[<<x, 0>>] = color1
        /\ \A x \in 0..(w - 1) : bg_img.px[<<x, h - 1>>] = color2
        /\ RowsOfColor(bg_img, color2) # {}
        /\ FirstBottomRow(bg_img, color2) = h \div 2

\* C5 amended: as stated, except that row 0 is the top colour only when
\* h >= 2 (for h = 1 the top band is empty and the single row is the bottom
\* colour).
C5_Amended ==
    pc = "background_returned" =>
        /\ bg_img.size = <<w, h>>
        /\ h >= 2 => \A x \in 0..(w - 1) : bg_img.px[<<x, 0>>] = color1
        /\ h = 1 => \A x \in 0..(w - 1) : bg_img.px[<<x, 0>>] = color2
        /\ \A x \in 0..(w - 1) : bg_img.px[<<x, h - 1>>] = color2
        /\ RowsOfColor(bg_img, color2) # {}
        /\ FirstBottomRow(bg_img, color2) = h \div 2

C5_Witness ==
    /\ pc = "background_returned" /\ h = 4 /\ w = 2
    /\ bg_img.px[<<0, 0>>] = color1
    /\ bg_img.px[<<0, 3>>] = color2
    /\ FirstBottomRow(bg_img, color2) = 2

----------------------------------------------------------------------------
(* Properties of the threshold scan (specification SpecThreshold) *)

RECURSIVE SumOver(_, _)
\* the sum of hs over a set of bins
SumOver(hs, B) ==
    IF B = {} THEN 0
    ELSE LET b == CHOOSE x \in B : TRUE IN hs[b] + SumOver(hs, B \ {b})

\* C6: the threshold is max(120, i) for the smallest bin i whose cumulative
\* count from bin 0 is at least 70% of the pixel count; such a bin exists, and
\* the threshold lies in 120..255.
C6_PercentileThreshold ==
    pc = "threshold_returned" =>
        LET populated == {b \in 0..(NumBins - 1) : hist[b] > 0}
            total     == SumOver(hist, populated)
            Cum(i)    == SumOver(hist, {b \in populated : b <= i})
            Reaches(i) == 10 * Cum(i) >= 7 * total
        IN /\ thresh \in 120..255
           /\ \E i \in 0..(NumBins - 1) :
                 /\ Max(120, i) = thresh
                 /\ Reaches(i)
                 /\ \A j \in 0..(i - 1) : ~Reaches(j)

\* ten pixels, the seventh of them in bin 200: exactly 70% is reached there
C6_Witness ==
    /\ pc = "threshold_returned"
    /\ thresh = 200
    /\ hist[0] + hist[119] + hist[120] + hist[200] = 7
    /\ hist[255] = 3
    /\ hist[200] > 0

----------------------------------------------------------------------------
(* Properties of the mask and of the composite (specification Spec) *)

MaskComputed == mask.mode = "L"

AllGray(v) == \A p \in DOMAIN gray.px : gray.px[p] = v

\* C7 as stated: an all-white image yields a threshold <= 200 and an
\* all-zero mask.
C7_Original ==
    (MaskComputed /\ AllGray(255)) =>
        /\ thresh <= 200
        /\ \A p \in DOMAIN mask.px : mask.px[p] = 0

\* C7 amended: an all-white image of any size yields the threshold 255 (the
\* bin of its only intensity, above 200) and an all-zero mask.
C7_Amended ==
    (MaskComputed /\ AllGray(255)) =>
        /\ thresh = 255
        /\ DOMAIN mask.px = Pixels(w, h)
        /\ \A p \in DOMAIN mask.px : mask.px[p] = 0

C7_Witness ==
    /\ MaskComputed /\ AllGray(255) /\ w * h >= 3
    /\ \A p \in Pixels(w, h) : original.px[p] = <<255, 255, 255>> /\ mask.px[p] = 0

\* C8: an all-black image of any size yields an all-ink mask (every mask
\* pixel is 255).
C8_AllBlackAllInk ==
    (MaskComputed /\ AllGray(0)) =>
        /\ DOMAIN mask.px = Pixels(w, h)
        /\ \A p \in DOMAIN mask.px : mask.px[p] = 255

C8_Witness ==
    /\ MaskComputed /\ AllGray(0) /\ w * h >= 3
    /\ \A p \in Pixels(w, h) : original.px[p] = <<0, 0, 0>> /\ mask.px[p] = 255

Abs(x) == IF x < 0 THEN -x ELSE x

\* the stencil result at p: the text colour on ink, else the background
Stencil(p) == IF mask.px[p] = 255 THEN text_color ELSE bg_img.px[p]

WatermarkDone == pc = "encode" \/ (pc = "done" /\ outcome.kind = "return"
                                     /\ outcome.status_code = 200)

\* C9: every channel of the output is the source at alpha 25/255 over the
\* stencil result, rounded to the nearest integer: it lies between the source
\* and the stencil value, within 25 of the stencil value; the output is RGB
\* (no alpha channel) of the source's size.
C9_FaintOverlay ==
    WatermarkDone =>
        /\ composed.mode = "RGB"
        /\ composed.size = original.size
        /\ DOMAIN composed.px = Pixels(w, h)
        /\ \A p \in Pixels(w, h) :
              /\ Len(composed.px[p]) = 3
              /\ \A c \in 1..3 :
                    LET src == original.px[p][c]
                        dst == Stencil(p)[c]
                        out == composed.px[p][c]
                    IN /\ 2 * Abs(255 * out - (25 * src + 230 * dst)) <= 255
                       /\ Min(src, dst) <= out /\ out <= Max(src, dst)
                       /\ Abs(out - dst) <= 25
        /\ pc = "done" => outcome.body.image = composed

\* an ink pixel and a paper pixel, each moved off its stencil colour
C9_Witness ==
    /\ pc = "encode"
    /\ \E p \in Pixels(w, h) :
          mask.px[p] = 255 /\ composed.px[p] # text_color
                           /\ composed.px[p] # original.px[p]
    /\ \E p \in Pixels(w, h) :
          mask.px[p] = 0 /\ composed.px[p] # bg_img.px[p]
                         /\ composed.px[p] # original.px[p]

MaxGray == CHOOSE m \in {gray.px[p] : p \in DOMAIN gray.px} :
              \A p \in DOMAIN gray.px : gray.px[p] <= m

\* C10: the mask is all ink exactly when every intensity is below 120; when
\* some intensity is 120 or more, the pixels of the maximum intensity are
\* not ink.
C10_AllInkIffBelowFloor ==
    MaskComputed =>
        /\ (\A p \in DOMAIN mask.px : mask.px[p] = 255)
              <=> (\A p \in DOMAIN gray.px : gray.px[p] < 120)
        /\ (\E p \in DOMAIN gray.px : gray.px[p] >= 120) =>
              \A p \in DOMAIN gray.px : gray.px[p] = MaxGray => mask.px[p] = 0

\* both cases: ink beside a brightest pixel of 120
C10_Witness ==
    /\ MaskComputed
    /\ MaxGray = 120
    /\ \E p \in DOMAIN mask.px : mask.px[p] = 255
    /\ \E p \in DOMAIN mask.px : mask.px[p] = 0 /\ gray.px[p] = 120

====
